---- MODULE Spec2Model ----
(***************************************************************************)
(* Vehicle price estimator: the deduction-rule store (src/src/settings.py) *)
(* and the estimation pipeline (src/streamlit_main.py).                    *)
(*                                                                         *)
(* Numbers: sale prices and deduction rates are whole numbers here.  The   *)
(* code computes in IEEE doubles; for whole-number prices every quantity   *)
(* of estimate_price_by_vin is a multiple of 1/8 and is exact in a double, *)
(* so the model carries Q1, Q3, IQR scaled by 4, the filter bounds scaled  *)
(* by 8 and prices returned scaled by 2.  Final prices are scaled by 200.  *)
(***************************************************************************)
EXTENDS Integers, Sequences, FiniteSets, TLC

VARIABLES
    \* ---- rule store (settings.py) ----
    table,        \* rows of TABLE_NAME, in storage (append) order
    assigned,     \* history: the ids add_rule has assigned so far
    lastOp,       \* history: the store operation that ran last, with its arguments
    tick,         \* history: flips on every store operation
    \* ---- two sessions running add_rule concurrently ----
    pc,           \* per session: "idle" or "read" (between SELECT MAX and the append)
    max_id,       \* per session: the local max_id of add_rule, <<>> for None
    new_rule,     \* per session: the arguments of the add_rule call in progress
    \* ---- estimate_price_by_vin (streamlit_main.py) ----
    df_similar,   \* the 'Sale Price' column of the comparables, in dataset order
    est_pc,       \* "idle", "call" (argument given) or "return"
    Q1, Q3, IQR,  \* quartiles and their difference, scaled by 4
    lower, upper, \* filter bounds, scaled by 8
    df_cleaned,   \* the prices the filter retains, in dataset order
    estimated_price, \* <<>> for None, else <<2 * the returned price>>
    \* ---- "Predict Price" in the two prediction pages (streamlit_main.py) ----
    flow,         \* "vin" or "manual": the page the request is made on
    ded_pc,       \* "idle", "submitted" or "done"
    vehicle,      \* [year, make, model] the rules are matched against
    prediction_result,  \* predict_price's payload (manual page)
    applied,      \* ids of the rules whose loop iteration set applied = True
    total_deduction_rate,
    final_price,  \* <<>> when none is shown, else <<200 * final price>>
    shown,        \* what the page shows: "none", "final_price", "error" or "nothing"
    store_ok,     \* whether Spark can read TABLE_NAME when the rules are fetched
    fetches,      \* how many times this script run has called get_all_rules
    alerts,       \* the st.error / st.warning / st.success boxes of this script run
    \* ---- get_vin_data (streamlit_main.py) ----
    data,         \* the rows of data.csv: [row, VIN], VIN as read (a sequence of characters)
    vin,          \* the argument, a sequence of characters
    lookup_pc,    \* "idle", "call" or "return"
    data_cleaned, \* the rows returned
    data_ok,      \* whether data.csv can be read and has the columns
    \* ---- the VIN page's session (streamlit_main.py) ----
    similar_vehicles,  \* st.session_state.similar_vehicles, <<>> for None
    vin_searched,      \* st.session_state.vin_searched, <<>> for None
    ui_event,     \* history: the button pressed last, with the VIN in the text field
    ui_tick,      \* history: flips on every button press
    last_found    \* history: what the most recent search that found matches stored

storeVars == <<table, assigned, lastOp, tick>>
raceVars == <<pc, max_id, new_rule>>
estVars == <<df_similar, est_pc, Q1, Q3, IQR, lower, upper, df_cleaned, estimated_price>>
dedVars == <<flow, ded_pc, vehicle, prediction_result, applied, total_deduction_rate,
             final_price, shown, store_ok, fetches, alerts>>
lookupVars == <<data, vin, lookup_pc, data_cleaned, data_ok>>
sessionVars == <<similar_vehicles, vin_searched, ui_event, ui_tick, last_found>>
vars == <<table, assigned, lastOp, tick, pc, max_id, new_rule,
          df_similar, est_pc, Q1, Q3, IQR, lower, upper, df_cleaned, estimated_price,
          flow, ded_pc, vehicle, prediction_result, applied, total_deduction_rate,
          final_price, shown, store_ok, fetches, alerts,
          data, vin, lookup_pc, data_cleaned, data_ok,
          similar_vehicles, vin_searched, ui_event, ui_tick, last_found>>

-----------------------------------------------------------------------------
(* Bounds *)
MaxRules == 2     \* rows the table may hold
MaxId == 3        \* largest id add_rule may assign
MaxComparables == 4   \* comparables handed to estimate_price_by_vin
MaxRecords == 3       \* rows of data.csv

\* sale prices the comparables are drawn from
PricePool == {0, 1, 4, 100, 10000, 10500, 11000, 50000}

Sessions == {1, 2}

\* Python None / SQL NULL in a string column
NULL == "<None>"

\* (rule_type, rule_condition, deduction_rate) triples add_rule is called with.
\* settings_page passes "General" as the condition of a General rule; add_rule's
\* own default is condition=None.
RuleArgs ==
    { [rule_type |-> "General",      rule_condition |-> "General",      deduction_rate |-> 5],
      [rule_type |-> "General",      rule_condition |-> NULL,           deduction_rate |-> 3],
      [rule_type |-> "Year",         rule_condition |-> "2015",         deduction_rate |-> 60],
      [rule_type |-> "Making Model", rule_condition |-> "Toyota|Camry", deduction_rate |-> 3],
      [rule_type |-> "Making Model", rule_condition |-> "toyota|camry", deduction_rate |-> 60] }

\* the add_rule calls the two concurrent sessions make
RaceArgs == { a \in RuleArgs : a.rule_type = "General" }

NoArgs == [rule_type |-> NULL, rule_condition |-> NULL, deduction_rate |-> 0]
NoOp == [op |-> "none", id |-> 0, args |-> NoArgs, is_active |-> FALSE]

-----------------------------------------------------------------------------
(* Helpers *)
Ids(t) == { t[i].id : i \in 1..Len(t) }

MaxOf(S) == CHOOSE m \in S : \A x \in S : x <= m

\* SELECT MAX(id) FROM table: NULL (here <<>>) on an empty table
SelectMaxIdByCount(t) == <<Len(t)>>
SelectMaxId(t) == IF t = <<>> THEN <<>> ELSE <<MaxOf(Ids(t))>>

\* new_id = (max_id + 1) if max_id is not None else 1
NewIdNoIncrement(m) == IF m = <<>> THEN 1 ELSE m[1]
NewId(m) == IF m = <<>> THEN 1 ELSE m[1] + 1

\* the one-row DataFrame add_rule appends
NewRuleInactive(id, a) ==
    [id |-> id, rule_type |-> a.rule_type, rule_condition |-> a.rule_condition,
     deduction_rate |-> a.deduction_rate, is_active |-> FALSE]
NewRule(id, a) ==
    [id |-> id, rule_type |-> a.rule_type, rule_condition |-> a.rule_condition,
     deduction_rate |-> a.deduction_rate, is_active |-> TRUE]

\* UPDATE table SET is_active = b WHERE id = rule_id
UpdateAllRows(t, rule_id, b) ==
    [i \in 1..Len(t) |-> [t[i] EXCEPT !.is_active = b]]
UpdateWhereId(t, rule_id, b) ==
    [i \in 1..Len(t) |-> IF t[i].id = rule_id THEN [t[i] EXCEPT !.is_active = b] ELSE t[i]]

\* DELETE FROM table WHERE id = rule_id
DeleteFromId(t, rule_id) == SelectSeq(t, LAMBDA r : r.id < rule_id)
DeleteWhereId(t, rule_id) == SelectSeq(t, LAMBDA r : r.id # rule_id)

\* orderBy("id"): insertion sort on id
RECURSIVE InsertById(_, _)
InsertById(r, s) ==
    IF s = <<>> THEN <<r>>
    ELSE IF r.id < s[1].id THEN <<r>> \o s
    ELSE <<s[1]>> \o InsertById(r, Tail(s))

RECURSIVE OrderById(_)
OrderById(t) == IF t = <<>> THEN <<>> ELSE InsertById(t[1], OrderById(Tail(t)))

\* get_all_rules(): spark.read.table(TABLE_NAME).orderBy("id")
get_all_rules(t) == OrderById(t)

-----------------------------------------------------------------------------
(* The rule store used from one session: every operation runs to completion *)

StoreInit ==
    /\ table = <<>>
    /\ assigned = {}
    /\ lastOp = NoOp
    /\ tick = FALSE

RaceIdle ==
    /\ pc = [s \in Sessions |-> "idle"]
    /\ max_id = [s \in Sessions |-> <<>>]
    /\ new_rule = [s \in Sessions |-> NoArgs]

add_rule(a) ==
    LET m == SelectMaxId(table)
        id == NewId(m)
    IN  /\ Len(table) < MaxRules
        /\ id <= MaxId
        /\ table' = Append(table, NewRule(id, a))
        /\ assigned' = assigned \cup {id}
        /\ lastOp' = [op |-> "add", id |-> id, args |-> a, is_active |-> TRUE]
        /\ tick' = ~tick
        /\ UNCHANGED <<raceVars, estVars, dedVars, lookupVars, sessionVars>>

update_rule_status(rule_id, is_active) ==
    /\ table' = UpdateWhereId(table, rule_id, is_active)
    /\ lastOp' = [op |-> "set_active", id |-> rule_id, args |-> NoArgs, is_active |-> is_active]
    /\ tick' = ~tick
    /\ UNCHANGED <<assigned, raceVars, estVars, dedVars, lookupVars, sessionVars>>

delete_rule(rule_id) ==
    /\ table' = DeleteWhereId(table, rule_id)
    /\ lastOp' = [op |-> "delete", id |-> rule_id, args |-> NoArgs, is_active |-> FALSE]
    /\ tick' = ~tick
    /\ UNCHANGED <<assigned, raceVars, estVars, dedVars, lookupVars, sessionVars>>

\* estimate_price_by_vin not in use
EstIdle ==
    /\ df_similar = <<>>
    /\ est_pc = "idle"
    /\ Q1 = 0 /\ Q3 = 0 /\ IQR = 0 /\ lower = 0 /\ upper = 0
    /\ df_cleaned = <<>>
    /\ estimated_price = <<>>

NoVehicle == [year |-> 0, make |-> NULL, model |-> NULL]
NoPrediction == [error |-> FALSE, predicted_sale_price |-> 0]

\* no prediction requested
DedIdle ==
    /\ flow = "none"
    /\ ded_pc = "idle"
    /\ vehicle = NoVehicle
    /\ prediction_result = NoPrediction
    /\ applied = {}
    /\ total_deduction_rate = 0
    /\ final_price = <<>>
    /\ shown = "none"
    /\ store_ok = TRUE
    /\ fetches = 0
    /\ alerts = {}

\* get_vin_data not in use
LookupIdle ==
    /\ data = <<>>
    /\ vin = <<>>
    /\ lookup_pc = "idle"
    /\ data_cleaned = <<>>
    /\ data_ok = TRUE

NoEvent == [button |-> "none", vin |-> <<>>]

\* the VIN page not opened: vin_based_prediction sets both keys to None
SessionIdle ==
    /\ similar_vehicles = <<>>
    /\ vin_searched = <<>>
    /\ ui_event = NoEvent
    /\ ui_tick = FALSE
    /\ last_found = <<>>

Init == StoreInit /\ RaceIdle /\ EstIdle /\ DedIdle /\ LookupIdle /\ SessionIdle

Next ==
    \/ \E a \in RuleArgs : add_rule(a)
    \/ \E rule_id \in 1..MaxId, b \in BOOLEAN : update_rule_status(rule_id, b)
    \/ \E rule_id \in 1..MaxId : delete_rule(rule_id)

Spec == Init /\ [][Next]_vars

-----------------------------------------------------------------------------
(* Two sessions on the same table.  add_rule is two Spark jobs, the SELECT  *)
(* MAX(id) and the append, with no lock or transaction around them; UPDATE  *)
(* and DELETE are single Delta statements.                                  *)

add_rule_read(s, a) ==
    /\ pc[s] = "idle"
    /\ max_id' = [max_id EXCEPT ![s] = SelectMaxId(table)]
    /\ new_rule' = [new_rule EXCEPT ![s] = a]
    /\ pc' = [pc EXCEPT ![s] = "read"]
    /\ UNCHANGED <<storeVars, estVars, dedVars, lookupVars, sessionVars>>

add_rule_append(s) ==
    LET id == NewId(max_id[s])
    IN  /\ pc[s] = "read"
        /\ Len(table) < MaxRules
        /\ id <= MaxId
        /\ table' = Append(table, NewRule(id, new_rule[s]))
        /\ assigned' = assigned \cup {id}
        /\ lastOp' = [op |-> "add", id |-> id, args |-> new_rule[s], is_active |-> TRUE]
        /\ tick' = ~tick
        /\ pc' = [pc EXCEPT ![s] = "idle"]
        /\ max_id' = [max_id EXCEPT ![s] = <<>>]
        /\ new_rule' = [new_rule EXCEPT ![s] = NoArgs]
        /\ UNCHANGED <<estVars, dedVars, lookupVars, sessionVars>>

RaceNext ==
    \/ \E s \in Sessions, a \in RaceArgs : add_rule_read(s, a)
    \/ \E s \in Sessions : add_rule_append(s)
    \/ \E rule_id \in 1..MaxId, b \in BOOLEAN : update_rule_status(rule_id, b)
    \/ \E rule_id \in 1..MaxId : delete_rule(rule_id)

SpecRace == Init /\ [][RaceNext]_vars

-----------------------------------------------------------------------------
(* Claims on the rule store *)

StoreStep == tick' # tick

\* C1: add(rule_type, deduction_rate, condition) on a store with ids S appends
\* exactly one rule; its id is max(S) + 1 (1 when S is empty), it is active and
\* carries the arguments given; every rule already stored is left unchanged.
C1_AddAppendsOneRule ==
    [][(StoreStep /\ lastOp'.op = "add") =>
          /\ Len(table') = Len(table) + 1
          /\ \A i \in 1..Len(table) : table'[i] = table[i]
          /\ LET r == table'[Len(table')]
             IN  /\ r.id = (IF Ids(table) = {} THEN 1 ELSE MaxOf(Ids(table)) + 1)
                 /\ r.is_active = TRUE
                 /\ r.rule_type = lastOp'.args.rule_type
                 /\ r.rule_condition = lastOp'.args.rule_condition
                 /\ r.deduction_rate = lastOp'.args.deduction_rate]_vars

\* an add onto a store that holds only id 2 (id 1 was deleted): the new id is 3
C1_Witness ==
    /\ lastOp.op = "add"
    /\ Len(table) = 2
    /\ table[1].id = 2
    /\ table[2].id = 3
    /\ table[2].rule_type = "Making Model"

\* C2 as stated: the id an add assigns was never assigned by an earlier add,
\* also when the rule that had it has been deleted since.
C2_NeverReusesAnId ==
    [][(StoreStep /\ lastOp'.op = "add") => lastOp'.id \notin assigned]_vars

\* C2 amended: the id an add assigns is larger than every id in the store at
\* that moment (so it is no stored rule's id); an id assigned before is assigned
\* again only when the store holds no rule with that id or a larger one.
C2_NewIdAboveStoredIds ==
    [][(StoreStep /\ lastOp'.op = "add") =>
          /\ \A i \in 1..Len(table) : table[i].id < lastOp'.id
          /\ lastOp'.id \notin Ids(table)
          /\ lastOp'.id \in Ids(table')]_vars

\* an add that comes after a deletion while a rule with a larger id remains
C2_Witness ==
    /\ lastOp.op = "add"
    /\ lastOp.id = 3
    /\ Ids(table) = {2, 3}
    /\ assigned = {1, 2, 3}

\* C3: no two rules share an id, also when two sessions run add concurrently.
C3_UniqueIds ==
    \A i, j \in 1..Len(table) : table[i].id = table[j].id => i = j

\* C9: for every rule in the store, set_active(id, not a) followed by
\* set_active(id, a), a being the rule's is_active, leaves list() as it was.
C9_ToggleTwiceIsIdentity ==
    \A i \in 1..Len(table) :
        LET id == table[i].id
            a == table[i].is_active
        IN  get_all_rules(UpdateWhereId(UpdateWhereId(table, id, ~a), id, a))
                = get_all_rules(table)

\* a toggle has just run on a store of two rules that differ in is_active
C9_Witness ==
    /\ lastOp.op = "set_active"
    /\ Len(table) = 2
    /\ table[1].is_active # table[2].is_active
    /\ \E i \in 1..2 : table[i].id = lastOp.id /\ table[i].is_active = lastOp.is_active

-----------------------------------------------------------------------------
(* estimate_price_by_vin: the IQR-filtered median of the comparables' prices *)

MinOf(S) == CHOOSE m \in S : \A x \in S : m <= x
Range(s) == { s[i] : i \in 1..Len(s) }

RECURSIVE InsertSorted(_, _)
InsertSorted(x, s) ==
    IF s = <<>> THEN <<x>>
    ELSE IF x <= s[1] THEN <<x>> \o s
    ELSE <<s[1]>> \o InsertSorted(x, Tail(s))

\* the ascending order Series.quantile and Series.median work on
RECURSIVE SortValues(_)
SortValues(s) == IF s = <<>> THEN <<>> ELSE InsertSorted(s[1], SortValues(Tail(s)))

\* Series.quantile(k/4), interpolation='linear' (the pandas default), times 4:
\* position (n-1)*k/4 in the sorted values, linear between the two neighbours
QuantileLowerNeighbour(s, k) ==
    LET v == SortValues(s)
        pos == (Len(v) - 1) * k
    IN  4 * v[(pos \div 4) + 1]
Quantile(s, k) ==
    LET v == SortValues(s)
        pos == (Len(v) - 1) * k
        j == (pos \div 4) + 1
        g == pos % 4
    IN  IF g = 0 THEN 4 * v[j] ELSE 4 * v[j] + g * (v[j + 1] - v[j])

\* Q1 - 1.5 * IQR and Q3 + 1.5 * IQR, times 8 (q and iqr come scaled by 4)
LowerFence(q1, iqr) == 2 * q1 - 3 * iqr
UpperFenceNoMargin(q3, iqr) == 2 * q3
UpperFence(q3, iqr) == 2 * q3 + 3 * iqr

\* df_similar[(price >= lower) & (price <= upper)], lo and hi scaled by 8
FilterStrict(s, lo, hi) == SelectSeq(s, LAMBDA p : 8 * p > lo /\ 8 * p < hi)
Filter(s, lo, hi) == SelectSeq(s, LAMBDA p : 8 * p >= lo /\ 8 * p <= hi)

\* Series.median(), times 2: the middle value, or the mean of the two middle ones
MedianNoHalving(s) ==
    LET v == SortValues(s)
        n == Len(v)
    IN  IF n % 2 = 1 THEN 2 * v[(n + 1) \div 2] ELSE 2 * (v[n \div 2] + v[(n \div 2) + 1])
Median(s) ==
    LET v == SortValues(s)
        n == Len(v)
    IN  IF n % 2 = 1 THEN 2 * v[(n + 1) \div 2] ELSE v[n \div 2] + v[(n \div 2) + 1]

\* df_cleaned and the value estimate_price_by_vin returns
Cleaned(s) ==
    LET q1 == Quantile(s, 1)
        q3 == Quantile(s, 3)
    IN  Filter(s, LowerFence(q1, q3 - q1), UpperFence(q3, q3 - q1))
EstimatePrice(s) ==
    IF s = <<>> THEN <<>>
    ELSE IF Cleaned(s) = <<>> THEN <<Median(s)>>
    ELSE <<Median(Cleaned(s))>>

\* the caller hands over the comparables
EstCall ==
    /\ df_similar \in UNION { [1..n -> PricePool] : n \in 0..MaxComparables }
    /\ est_pc = "call"
    /\ Q1 = 0 /\ Q3 = 0 /\ IQR = 0 /\ lower = 0 /\ upper = 0
    /\ df_cleaned = <<>>
    /\ estimated_price = <<>>

estimate_price_by_vin ==
    /\ est_pc = "call"
    /\ est_pc' = "return"
    /\ IF df_similar = <<>>
       THEN /\ estimated_price' = <<>>
            /\ UNCHANGED <<Q1, Q3, IQR, lower, upper, df_cleaned>>
       ELSE LET q1 == Quantile(df_similar, 1)
                q3 == Quantile(df_similar, 3)
                iqr == q3 - q1
            IN  /\ Q1' = q1 /\ Q3' = q3 /\ IQR' = iqr
                /\ lower' = LowerFence(q1, iqr)
                /\ upper' = UpperFence(q3, iqr)
                /\ df_cleaned' = Cleaned(df_similar)
                /\ estimated_price' = EstimatePrice(df_similar)
    /\ UNCHANGED <<df_similar, storeVars, raceVars, dedVars, lookupVars, sessionVars>>

EstInit == StoreInit /\ RaceIdle /\ EstCall /\ DedIdle /\ LookupIdle /\ SessionIdle

EstNext == estimate_price_by_vin

SpecEstimate == EstInit /\ [][EstNext]_vars

-----------------------------------------------------------------------------
(* Claims on the statistical estimator *)

Returned == est_pc = "return" /\ df_similar # <<>>

\* C4: for a non-empty sequence of prices the estimate v satisfies
\* min(prices) <= v <= max(prices), and for a single price it is that price.
C4_EstimateWithinRange ==
    Returned =>
        /\ Len(estimated_price) = 1
        /\ 2 * MinOf(Range(df_similar)) <= estimated_price[1]
        /\ estimated_price[1] <= 2 * MaxOf(Range(df_similar))
        /\ (Len(df_similar) = 1 => estimated_price[1] = 2 * df_similar[1])

\* an estimate strictly inside the range, with an outlier filtered away
C4_Witness ==
    /\ Returned
    /\ df_similar = <<100, 0, 50000, 1>>
    /\ estimated_price = <<2>>

\* The reference computation of C5, in eighths: the order statistics of the
\* prices, the quantile at rank fraction k/4 as a weighted mean of neighbours.
RefSorted(s) ==
    CHOOSE v \in [1..Len(s) -> Range(s)] :
        /\ \A i \in 1..(Len(s) - 1) : v[i] <= v[i + 1]
        /\ \A x \in Range(s) :
               Cardinality({i \in 1..Len(s) : v[i] = x}) = Cardinality({i \in 1..Len(s) : s[i] = x})
RefQuantile8(s, k) ==
    LET v == RefSorted(s)
        n == Len(s)
        j == ((n - 1) * k) \div 4
        w == ((n - 1) * k) % 4
    IN  2 * ((4 - w) * v[j + 1] + w * v[IF j + 2 <= n THEN j + 2 ELSE n])
RefMedian8(s) ==
    LET v == RefSorted(s)
        n == Len(s)
    IN  4 * (v[(n + 1) \div 2] + v[(n + 2) \div 2])
RefRetained(s) ==
    LET q1 == RefQuantile8(s, 1)
        q3 == RefQuantile8(s, 3)
        iqr == q3 - q1
        keep == { i \in 1..Len(s) : 2 * q1 - 3 * iqr <= 16 * s[i] /\ 16 * s[i] <= 2 * q3 + 3 * iqr }
    IN  SelectSeq(s, LAMBDA p : \E i \in keep : s[i] = p)
RefEstimate8(s) ==
    IF RefRetained(s) = <<>> THEN RefMedian8(s) ELSE RefMedian8(RefRetained(s))

\* C5: the estimate equals the reference computation (linear-interpolation
\* quartiles, bounds Q1 - 1.5 IQR and Q3 + 1.5 IQR both inclusive, median of
\* the retained prices, median of all prices when none is retained).
C5_EstimateEqualsReference ==
    Returned =>
        /\ 4 * estimated_price[1] = RefEstimate8(df_similar)
        /\ 2 * Q1 = RefQuantile8(df_similar, 1)
        /\ 2 * Q3 = RefQuantile8(df_similar, 3)
        /\ df_cleaned = RefRetained(df_similar)

\* prices exactly on both bounds are retained: Q1 = Q3 = 4, IQR = 0
C5_Witness ==
    /\ Returned
    /\ df_similar = <<4, 4, 4, 4>>
    /\ lower = 32 /\ upper = 32
    /\ df_cleaned = df_similar
    /\ estimated_price = <<8>>

Example == <<10000, 10500, 11000, 50000>>

\* C6 as stated: the example gives Q1 = 10375, Q3 = 16625, IQR = 6250, bounds
\* [875.0, 25750.0], retains [10000, 10500, 11000] and returns 10500.
C6_ExampleAsStated ==
    (Returned /\ df_similar = Example) =>
        /\ Q1 = 4 * 10375 /\ Q3 = 4 * 16625 /\ IQR = 4 * 6250
        /\ lower = 8 * 875 /\ upper = 8 * 25750
        /\ df_cleaned = <<10000, 10500, 11000>>
        /\ estimated_price = <<2 * 10500>>

\* C6 amended: Q1 = 10375, Q3 = 20750, IQR = 10375, bounds [-5187.5, 36312.5],
\* retained [10000, 10500, 11000], estimate 10500.
C6_ExampleAmended ==
    (Returned /\ df_similar = Example) =>
        /\ Q1 = 4 * 10375 /\ Q3 = 4 * 20750 /\ IQR = 4 * 10375
        /\ lower = -41500 /\ upper = 290500
        /\ df_cleaned = <<10000, 10500, 11000>>
        /\ estimated_price = <<2 * 10500>>

C6_Witness == Returned /\ df_similar = Example /\ estimated_price = <<21000>>

-----------------------------------------------------------------------------
(* "Predict Price": the estimate, then the deduction rules, then the final   *)
(* price.  vin_based_prediction and manual_input_prediction each carry their *)
(* own copy of the rule-matching loop.                                       *)

\* vehicles the rules are matched against: (Lot Year, Lot Make, Lot Model)
Vehicles ==
    { [year |-> y, make |-> mm[1], model |-> mm[2]] :
        y \in {2015, 2020}, mm \in {<<"Toyota", "Camry">>, <<"Honda", "Civic">>} }

\* comparables of a VIN search, as their 'Sale Price' column
Comparables == { <<0>>, <<20000>>, <<10000, 10500, 11000, 50000>> }

\* payloads of predict_price: a price, or an error
Predictions ==
    { [error |-> FALSE, predicted_sale_price |-> 0],
      [error |-> FALSE, predicted_sale_price |-> 20000],
      [error |-> TRUE,  predicted_sale_price |-> 0] }

\* rule tables the store can hold: ids 1..n, any rule arguments, any is_active
Tables ==
    UNION { { [i \in 1..n |-> [NewRule(i, a[i]) EXCEPT !.is_active = act[i]]] :
                a \in [1..n -> RuleArgs], act \in [1..n -> BOOLEAN] } : n \in 0..MaxRules }

\* str(int(vehicle_year)): the decimal digits of a non-negative year
Digit == <<"0", "1", "2", "3", "4", "5", "6", "7", "8", "9">>
RECURSIVE StrInt(_)
StrInt(n) == IF n < 10 THEN Digit[n + 1] ELSE StrInt(n \div 10) \o Digit[(n % 10) + 1]

\* f"{vehicle_make}|{vehicle_model}"
MakeModelKey(make, model) == make \o "|" \o model

\* all_rules[all_rules['is_active']]
EveryRule(rules) == rules
ActiveRules(rules) == SelectSeq(rules, LAMBDA r : r.is_active)

\* the loop body of vin_based_prediction: the value of `applied` for one rule
RuleAppliesVin(rule, v) ==
    IF rule.rule_type = "General" /\ rule.rule_condition = "General" THEN TRUE
    ELSE IF rule.rule_type = "Year" THEN StrInt(v.year) = rule.rule_condition
    ELSE IF rule.rule_type = "Making Model"
         THEN MakeModelKey(v.make, v.model) = rule.rule_condition
    ELSE FALSE

\* the loop body of manual_input_prediction
RuleAppliesManual(rule, v) ==
    IF rule.rule_type = "General" /\ rule.rule_condition = "General" THEN TRUE
    ELSE IF rule.rule_type = "Year" THEN StrInt(v.year) = rule.rule_condition
    ELSE IF rule.rule_type = "Making Model"
         THEN MakeModelKey(v.make, v.model) = rule.rule_condition
    ELSE FALSE

RuleApplies(f, rule, v) ==
    IF f = "vin" THEN RuleAppliesVin(rule, v) ELSE RuleAppliesManual(rule, v)

\* the loop: total_deduction_rate += rule['deduction_rate'] for applied rules
RECURSIVE SumRatesCapped(_, _, _)
SumRatesCapped(f, rules, v) ==
    IF rules = <<>> THEN 0
    ELSE LET rest == SumRatesCapped(f, Tail(rules), v)
             sum == IF RuleApplies(f, rules[1], v) THEN rules[1].deduction_rate + rest ELSE rest
         IN  IF sum > 100 THEN 100 ELSE sum
RECURSIVE SumRates(_, _, _)
SumRates(f, rules, v) ==
    IF rules = <<>> THEN 0
    ELSE (IF RuleApplies(f, rules[1], v) THEN rules[1].deduction_rate ELSE 0)
         + SumRates(f, Tail(rules), v)

AppliedIds(f, rules, v) ==
    { rules[i].id : i \in { j \in 1..Len(rules) : RuleApplies(f, rules[j], v) } }

\* final_price = estimated_price * (1 - total_deduction_rate / 100), times 100
\* (price comes scaled by 2, so the result is the final price times 200)
FinalPriceClamped(price, total) == IF total >= 100 THEN 0 ELSE price * (100 - total)
FinalPrice(price, total) == price * (100 - total)

\* initialize_rules(): both pages call it before get_all_rules; settings.py as
\* given does not define it.  By the store's load contract it prepares the
\* store and changes no rule.
initialize_rules(t) == t

\* get_all_rules() with its except branch: when Spark cannot read the table
\* it reports st.error and returns an empty DataFrame with the right columns
FetchRulesIgnoringFailure(t, ok) == get_all_rules(t)
FetchRules(t, ok) == IF ok THEN get_all_rules(t) ELSE <<>>
FetchAlerts(ok) == IF ok THEN {} ELSE {"error"}

\* the rules part of both pages: fetch, filter, match, apply
ApplyRules(f, price) ==
    LET all_rules == FetchRules(initialize_rules(table), store_ok)
        active_rules == ActiveRules(all_rules)
        total == SumRates(f, active_rules, vehicle)
    IN  /\ fetches' = 1     \* one call of get_all_rules per script run, no loop
        /\ applied' = AppliedIds(f, active_rules, vehicle)
        /\ total_deduction_rate' = total
        /\ final_price' = <<FinalPrice(price, total)>>
        /\ shown' = "final_price"

\* a request on one of the two pages, with the rule table as it stands
PredictRequest ==
    /\ table \in Tables
    /\ assigned = Ids(table)
    /\ lastOp = NoOp /\ tick = FALSE
    /\ flow \in {"vin", "manual"}
    /\ vehicle \in Vehicles
    /\ IF flow = "vin"
       THEN df_similar \in Comparables /\ prediction_result = NoPrediction
       ELSE df_similar = <<>> /\ prediction_result \in Predictions
    /\ est_pc = "idle"
    /\ Q1 = 0 /\ Q3 = 0 /\ IQR = 0 /\ lower = 0 /\ upper = 0
    /\ df_cleaned = <<>>
    /\ estimated_price = <<>>
    /\ ded_pc = "submitted"
    /\ applied = {}
    /\ total_deduction_rate = 0
    /\ final_price = <<>>
    /\ shown = "none"
    /\ store_ok \in BOOLEAN
    /\ fetches = 0
    /\ alerts = {}

\* `if estimated_price:` -- None and 0.0 are both falsy
Truthy(price) == price # <<>> /\ price[1] # 0

\* the body of `if st.button("Predict Price")` in vin_based_prediction
VinPredictBody(prices) ==
    /\ ded_pc' = "done"
    /\ estimated_price' = EstimatePrice(prices)
    /\ IF Truthy(estimated_price')
       THEN /\ ApplyRules("vin", estimated_price'[1])
            /\ alerts' = FetchAlerts(store_ok)
       ELSE /\ shown' = "nothing"
            /\ alerts' = {}
            /\ UNCHANGED <<applied, total_deduction_rate, final_price, fetches>>

\* vin_based_prediction, "Predict Price" pressed
vin_predict ==
    /\ flow = "vin" /\ ded_pc = "submitted"
    /\ VinPredictBody(df_similar)
    /\ UNCHANGED <<flow, vehicle, prediction_result, store_ok, storeVars, raceVars,
                   lookupVars, sessionVars,
                   df_similar, est_pc, Q1, Q3, IQR, lower, upper, df_cleaned>>

\* `'error' in prediction_result`
HasErrorNever(result) == FALSE
HasError(result) == result.error

\* manual_input_prediction, the form submitted
manual_predict ==
    /\ flow = "manual" /\ ded_pc = "submitted"
    /\ ded_pc' = "done"
    /\ IF HasError(prediction_result)
       THEN /\ shown' = "error"
            /\ alerts' = {"error"}
            /\ UNCHANGED <<estimated_price, applied, total_deduction_rate, final_price, fetches>>
       ELSE /\ estimated_price' = <<2 * prediction_result.predicted_sale_price>>
            /\ ApplyRules("manual", 2 * prediction_result.predicted_sale_price)
            /\ alerts' = {"success"} \cup FetchAlerts(store_ok)
    /\ UNCHANGED <<flow, vehicle, prediction_result, store_ok, storeVars, raceVars,
                   lookupVars, sessionVars,
                   df_similar, est_pc, Q1, Q3, IQR, lower, upper, df_cleaned>>

PredictInit == RaceIdle /\ PredictRequest /\ LookupIdle /\ SessionIdle

PredictNext == vin_predict \/ manual_predict

SpecPredict == PredictInit /\ [][PredictNext]_vars

-----------------------------------------------------------------------------
(* Claims on rule matching and the final price *)

Priced == ded_pc = "done" /\ shown = "final_price"

\* the rules the request loaded from the store
StoredRules == IF store_ok THEN { table[i] : i \in 1..Len(table) } ELSE {}

\* applicability as C7 states it: a General rule whatever its condition
AppliesAsStated(r, v) ==
    \/ r.rule_type = "General"
    \/ r.rule_type = "Year" /\ r.rule_condition = StrInt(v.year)
    \/ r.rule_type = "Making Model" /\ r.rule_condition = MakeModelKey(v.make, v.model)

\* applicability as the code has it: a General rule with condition "General"
AppliesAsAmended(r, v) ==
    \/ r.rule_type = "General" /\ r.rule_condition = "General"
    \/ r.rule_type = "Year" /\ r.rule_condition = StrInt(v.year)
    \/ r.rule_type = "Making Model" /\ r.rule_condition = MakeModelKey(v.make, v.model)

RECURSIVE SumOver(_)
SumOver(R) ==
    IF R = {} THEN 0
    ELSE LET r == CHOOSE x \in R : TRUE IN r.deduction_rate + SumOver(R \ {r})

Contributing == { x \in StoredRules : x.is_active /\ AppliesAsAmended(x, vehicle) }

\* C8: the total is the uncapped sum of the rates of the applicable active
\* rules (equal rules stack), final = estimate * (1 - total / 100) unclamped:
\* General 5 plus a matching Make-Model 3 give 8 and estimate * 0.92, and a
\* total >= 100 gives a non-positive final price.
C8_UncappedSumAndFinalPrice ==
    Priced =>
        /\ total_deduction_rate = SumOver(Contributing)
        /\ final_price = <<estimated_price[1] * (100 - total_deduction_rate)>>
        /\ ( /\ Cardinality(Contributing) = 2
              /\ { [t |-> r.rule_type, c |-> r.rule_condition, d |-> r.deduction_rate] : r \in Contributing }
                    = { [t |-> "General", c |-> "General", d |-> 5],
                        [t |-> "Making Model", c |-> "Toyota|Camry", d |-> 3] }
             => /\ total_deduction_rate = 8
                /\ final_price[1] = estimated_price[1] * 92 )
        /\ (total_deduction_rate >= 100 /\ estimated_price[1] > 0 => final_price[1] <= 0)

\* two equal Year rules stack to 120 percent: the final price is negative
C8_Witness ==
    /\ Priced
    /\ Len(table) = 2
    /\ table[1].rule_type = "Year" /\ table[2].rule_type = "Year"
    /\ total_deduction_rate = 120
    /\ final_price[1] < 0

ManualError == ded_pc = "done" /\ flow = "manual" /\ prediction_result.error

\* C12: when predict_price returns an error payload on the manual-input page,
\* the error is shown and the interaction ends: the statistical estimator is
\* not run, no rules are fetched or applied, and no final price is produced.
C12_ErrorPayloadEndsInteraction ==
    ManualError =>
        /\ shown = "error" /\ "error" \in alerts
        /\ estimated_price = <<>> /\ est_pc = "idle" /\ df_cleaned = <<>>
        /\ fetches = 0 /\ applied = {} /\ total_deduction_rate = 0
        /\ final_price = <<>>

\* an error payload met while the store holds an active General rule
C12_Witness ==
    /\ ManualError
    /\ shown = "error"
    /\ store_ok
    /\ \E i \in 1..Len(table) :
           table[i].is_active /\ table[i].rule_type = "General"
                              /\ table[i].rule_condition = "General"

\* a request that fetched the rules while Spark could not read the table
FetchFailed == ded_pc = "done" /\ ~store_ok /\ fetches > 0

-----------------------------------------------------------------------------
(* get_vin_data: the rows of data.csv whose VIN shares the 8-character prefix *)

PrefixLen == 8

Whitespace == {" ", "\t"}

\* VINs as sequences of characters
Vin1 == <<"1", "H", "G", "B", "H", "4", "1", "J", "X">>
Vin1OtherTail == <<"1", "H", "G", "B", "H", "4", "1", "J", "Y">>
Vin1OtherPrefix == <<"1", "H", "G", "B", "H", "4", "1", "K", "X">>
VinPrefixOnly == <<"1", "H", "G", "B", "H", "4", "1", "J">>
VinShort == <<"1", "H", "G">>

\* the VIN column of data.csv, as read by read_csv (padding is kept)
DataVins == { Vin1, Vin1OtherTail, Vin1OtherPrefix, VinShort, <<" ">> \o Vin1 \o <<" ">> }

\* what the user types into the VIN field (never empty: `if vin:` guards the call)
InputVins ==
    { Vin1, Vin1OtherPrefix, VinPrefixOnly, VinShort,
      <<" ">> \o Vin1, Vin1 \o <<" ">>, VinShort \o <<" ">> }

\* str.strip()
RECURSIVE LStrip(_)
LStrip(s) == IF s # <<>> /\ s[1] \in Whitespace THEN LStrip(Tail(s)) ELSE s
RECURSIVE RStrip(_)
RStrip(s) ==
    IF s # <<>> /\ s[Len(s)] \in Whitespace THEN RStrip(SubSeq(s, 1, Len(s) - 1)) ELSE s
Strip(s) == LStrip(RStrip(s))

\* s[:n]
Slice(s, n) == IF Len(s) <= n THEN s ELSE SubSeq(s, 1, n)

\* vin_search = vin[:8]
VinSearch(v) == Slice(v, PrefixLen)

\* data[str_cols] = data[str_cols].apply(lambda x: x.str.strip())
StripColumns(d) == [i \in 1..Len(d) |-> [d[i] EXCEPT !.VIN = Strip(d[i].VIN)]]

\* data[data['VIN'].str.strip().str[:8] == vin_search]
MatchRows(d, key) == SelectSeq(d, LAMBDA r : Slice(Strip(r.VIN), PrefixLen) = key)

LookupCall ==
    /\ data \in UNION { { [i \in 1..n |-> [row |-> i, VIN |-> c[i]]] : c \in [1..n -> DataVins] } :
                          n \in 0..MaxRecords }
    /\ vin \in InputVins
    /\ lookup_pc = "call"
    /\ data_cleaned = <<>>
    /\ data_ok = TRUE

get_vin_data ==
    /\ lookup_pc = "call"
    /\ lookup_pc' = "return"
    /\ data_cleaned' = MatchRows(StripColumns(data), VinSearch(vin))
    /\ UNCHANGED <<data, vin, data_ok, storeVars, raceVars, estVars, dedVars, sessionVars>>

LookupInit == StoreInit /\ RaceIdle /\ EstIdle /\ DedIdle /\ LookupCall /\ SessionIdle

LookupNext == get_vin_data

SpecLookup == LookupInit /\ [][LookupNext]_vars

-----------------------------------------------------------------------------
(* Claims on the comparable lookup *)

\* the first n characters of a string with the blanks at both ends removed
TrimmedPrefix(s, n) ==
    LET first == CHOOSE i \in 1..(Len(s) + 1) :
                    /\ \A j \in 1..(i - 1) : s[j] \in Whitespace
                    /\ (i <= Len(s) => s[i] \notin Whitespace)
        last == CHOOSE i \in 0..Len(s) :
                    /\ \A j \in (i + 1)..Len(s) : s[j] \in Whitespace
                    /\ (i >= 1 => s[i] \notin Whitespace)
        stop == IF last < first + n - 1 THEN last ELSE first + n - 1
    IN  [k \in 1..(IF stop < first THEN 0 ELSE stop - first + 1) |-> s[first + k - 1]]

RowsOf(d) == [i \in 1..Len(d) |-> d[i].row]

\* C10: get_vin_data(vin) returns exactly the records whose trimmed VIN has the
\* same first 8 characters as the trimmed input VIN, in the dataset's order.
C10_MatchesOnTrimmedInput ==
    lookup_pc = "return" =>
        RowsOf(data_cleaned)
            = RowsOf(SelectSeq(data, LAMBDA r :
                        TrimmedPrefix(r.VIN, PrefixLen) = TrimmedPrefix(vin, PrefixLen)))

\* what the code returns: the input VIN is cut to 8 characters as typed
C10_MatchesOnRawInput ==
    lookup_pc = "return" =>
        RowsOf(data_cleaned)
            = RowsOf(SelectSeq(data, LAMBDA r :
                        TrimmedPrefix(r.VIN, PrefixLen) = Slice(vin, PrefixLen)))

\* a VIN typed with a leading blank finds nothing although the dataset has it
C10_Witness ==
    /\ lookup_pc = "return"
    /\ vin = <<" ">> \o Vin1
    /\ Len(data) = 2 /\ data[1].VIN = Vin1 /\ data[2].VIN = Vin1OtherTail
    /\ data_cleaned = <<>>

-----------------------------------------------------------------------------
(* Further claims on the rule store and the estimator *)

Rows(t) == { t[i] : i \in 1..Len(t) }

\* C14: set_active(id, b) changes only is_active of the rule with that id, and
\* delete(id) removes only the rule with that id: every other rule and the
\* other fields of the updated rule are unchanged, and both leave the store
\* unchanged when no rule has that id; list() then returns all remaining rules
\* in ascending id order.
C14_UpdateAndDeleteTouchOneRule ==
    [][StoreStep =>
          /\ lastOp'.op = "set_active" =>
                /\ Len(table') = Len(table)
                /\ \A i \in 1..Len(table) :
                       IF table[i].id = lastOp'.id
                       THEN /\ table'[i].is_active = lastOp'.is_active
                            /\ table'[i].id = table[i].id
                            /\ table'[i].rule_type = table[i].rule_type
                            /\ table'[i].rule_condition = table[i].rule_condition
                            /\ table'[i].deduction_rate = table[i].deduction_rate
                       ELSE table'[i] = table[i]
          /\ lastOp'.op = "delete" =>
                /\ Rows(table') = { r \in Rows(table) : r.id # lastOp'.id }
                /\ Len(table') = Cardinality(Rows(table'))
          /\ (lastOp'.op \in {"set_active", "delete"} /\ lastOp'.id \notin Ids(table)) =>
                table' = table
          /\ lastOp'.op \in {"set_active", "delete"} =>
                LET list == get_all_rules(table')
                IN  /\ Len(list) = Len(table')
                    /\ Rows(list) = Rows(table')
                    /\ \A i \in 1..Len(list), j \in 1..Len(list) :
                           i < j => list[i].id < list[j].id]_vars

\* delete(1) has run on a store of two rules and left the rule with id 2
C14_Witness ==
    /\ lastOp.op = "delete" /\ lastOp.id = 1
    /\ assigned = {1, 2}
    /\ Ids(table) = {2}

\* C15: for every non-empty sequence of prices the IQR filter retains at least
\* one price, so the fallback to the median of all prices is not taken and the
\* estimate is the median of the retained prices.
C15_FilterRetainsAPrice ==
    Returned =>
        /\ df_cleaned # <<>>
        /\ estimated_price = <<Median(df_cleaned)>>

\* two prices far apart: neither lies between Q1 and Q3, both are retained
C15_Witness ==
    /\ Returned
    /\ df_similar = <<0, 50000>>
    /\ Q1 = 50000 /\ Q3 = 150000
    /\ df_cleaned = <<0, 50000>>

-----------------------------------------------------------------------------
(* The VIN page over one session: every press of "Search" or "Predict Price" *)
(* reruns vin_based_prediction with st.session_state carried over.           *)

MaxSessionRecords == 2   \* rows of data.csv in the session model

\* rows of data.csv with the columns the page uses
SessionRecords ==
    { [VIN |-> v, price |-> p, year |-> 2015, make |-> "Toyota", model |-> "Camry"] :
        v \in {Vin1, Vin1OtherTail, Vin1OtherPrefix}, p \in {0, 20000} }

\* an empty dataset (header only) up to MaxSessionRecords rows
SessionData == UNION { [1..n -> SessionRecords] : n \in 0..MaxSessionRecords }

\* the text field when a button is pressed: empty, a blank, or a VIN
SearchVins == { <<>>, <<" ">>, Vin1, Vin1OtherPrefix, VinShort }

SessionTables ==
    { <<>>,
      <<NewRule(1, [rule_type |-> "General", rule_condition |-> "General", deduction_rate |-> 5])>>,
      <<NewRule(1, [rule_type |-> "Year", rule_condition |-> "2015", deduction_rate |-> 60])>> }

\* get_vin_data with its except branch: a data.csv that cannot be read (missing,
\* zero bytes, no VIN column) raises inside the try; the function reports
\* st.error and returns an empty DataFrame
GetVinData(d, ok, v) == IF ok THEN MatchRows(StripColumns(d), VinSearch(v)) ELSE <<>>
LookupAlertsEmptyIsError(d, ok) == IF ok /\ d # <<>> THEN {} ELSE {"error"}
LookupAlerts(d, ok) == IF ok THEN {} ELSE {"error"}

\* what the search leaves in st.session_state.similar_vehicles / vin_searched
AfterSearchKeep(found, old) == IF found # <<>> THEN found ELSE old
AfterSearch(found, old) == IF found # <<>> THEN found ELSE <<>>
SearchedVin(found, v) == IF found # <<>> THEN v ELSE <<>>

\* df_similar = pd.DataFrame(similar_vehicles), its 'Sale Price' column
PricesOf(rows) == [i \in 1..Len(rows) |-> rows[i].price]

\* vehicle_year, vehicle_make, vehicle_model: .iloc[0] of the comparables
FirstVehicle(rows) ==
    IF rows = <<>> THEN NoVehicle
    ELSE [year |-> rows[1].year, make |-> rows[1].make, model |-> rows[1].model]

SessionInit ==
    /\ table \in SessionTables
    /\ assigned = Ids(table)
    /\ lastOp = NoOp /\ tick = FALSE
    /\ RaceIdle /\ EstIdle /\ SessionIdle
    /\ flow = "vin"
    /\ ded_pc = "idle"
    /\ vehicle = NoVehicle
    /\ prediction_result = NoPrediction
    /\ applied = {}
    /\ total_deduction_rate = 0
    /\ final_price = <<>>
    /\ shown = "none"
    /\ store_ok \in BOOLEAN
    /\ fetches = 0
    /\ alerts = {}
    /\ data_ok \in BOOLEAN
    /\ data \in (IF data_ok THEN SessionData ELSE {<<>>})
    /\ vin = <<>>
    /\ lookup_pc = "idle"
    /\ data_cleaned = <<>>

\* "Search" pressed with v in the text field
search(v) ==
    /\ ui_event' = [button |-> "search", vin |-> v]
    /\ ui_tick' = ~ui_tick
    /\ vin' = v
    /\ IF v # <<>>
       THEN LET found == GetVinData(data, data_ok, v)
            IN  /\ lookup_pc' = "return"
                /\ data_cleaned' = found
                /\ similar_vehicles' = AfterSearch(found, similar_vehicles)
                /\ vin_searched' = SearchedVin(found, v)
                /\ last_found' = IF found # <<>> THEN found ELSE last_found
                /\ alerts' = LookupAlerts(data, data_ok)
                                 \cup {IF found # <<>> THEN "success" ELSE "no_match_warning"}
       ELSE /\ alerts' = {"enter_vin_warning"}
            /\ UNCHANGED <<lookup_pc, data_cleaned, similar_vehicles, vin_searched, last_found>>
    \* the rerun shows no prediction: "Predict Price" is not the button pressed
    /\ df_similar' = PricesOf(similar_vehicles')
    /\ vehicle' = FirstVehicle(similar_vehicles')
    /\ ded_pc' = "idle"
    /\ estimated_price' = <<>>
    /\ applied' = {}
    /\ total_deduction_rate' = 0
    /\ final_price' = <<>>
    /\ shown' = "none"
    /\ fetches' = 0
    /\ UNCHANGED <<flow, prediction_result, store_ok, data, data_ok, storeVars, raceVars,
                   est_pc, Q1, Q3, IQR, lower, upper, df_cleaned>>

\* "Predict Price" pressed: the button exists only under `if similar_vehicles:`
predict ==
    /\ similar_vehicles # <<>>
    /\ ui_event' = [button |-> "predict", vin |-> vin]
    /\ ui_tick' = ~ui_tick
    /\ df_similar' = PricesOf(similar_vehicles)
    /\ VinPredictBody(df_similar')
    /\ UNCHANGED <<flow, vehicle, prediction_result, store_ok, storeVars, raceVars, lookupVars,
                   similar_vehicles, vin_searched, last_found,
                   est_pc, Q1, Q3, IQR, lower, upper, df_cleaned>>

SessionNext == (\E v \in SearchVins : search(v)) \/ predict

SpecSession == SessionInit /\ [][SessionNext]_vars

-----------------------------------------------------------------------------
(* Claims on the VIN page *)

UiStep == ui_tick' # ui_tick

\* no row of a readable data.csv shares the searched prefix
NoRecordMatches(v) ==
    \A i \in 1..Len(data) : Slice(Strip(data[i].VIN), PrefixLen) # Slice(v, PrefixLen)

\* C11: a lookup that matches no record, the empty dataset included, returns an
\* empty sequence and reports no error; the search then ends as a NoMatch
\* outcome with the warning message and nothing else.
C11_NoMatchIsAWarning ==
    (/\ ui_event.button = "search" /\ ui_event.vin # <<>>
     /\ data_ok /\ NoRecordMatches(ui_event.vin)) =>
        /\ lookup_pc = "return" /\ data_cleaned = <<>>
        /\ alerts = {"no_match_warning"}
        /\ similar_vehicles = <<>>

\* a VIN searched in a dataset that has no rows
C11_Witness ==
    /\ ui_event = [button |-> "search", vin |-> Vin1]
    /\ data_ok /\ data = <<>>
    /\ data_cleaned = <<>>
    /\ alerts = {"no_match_warning"}

\* C16: over any sequence of searches and predict requests in one session, an
\* estimate is computed only on a predict request, from the non-empty
\* comparables stored by the most recent search that found matches; a search
\* that finds no match clears the stored comparables and the searched VIN, a
\* search with an empty VIN field leaves both unchanged, and no prediction is
\* requested while no comparables are stored.
C16_EstimateFromLatestMatches ==
    [][UiStep =>
          /\ (ui_event'.button = "search" /\ ui_event'.vin = <<>>) =>
                UNCHANGED <<similar_vehicles, vin_searched>>
          /\ (/\ ui_event'.button = "search" /\ ui_event'.vin # <<>>
              /\ (~data_ok \/ NoRecordMatches(ui_event'.vin))) =>
                similar_vehicles' = <<>> /\ vin_searched' = <<>>
          /\ ui_event'.button = "predict" =>
                /\ similar_vehicles # <<>>
                /\ similar_vehicles = last_found
                /\ df_similar' = PricesOf(last_found)
                /\ estimated_price' = EstimatePrice(df_similar')
                /\ estimated_price' # <<>>
          /\ estimated_price' # <<>> => ui_event'.button = "predict"]_vars

\* a prediction from the comparables of the latest search, in a dataset where
\* another search stores other comparables
C16_Witness ==
    /\ ui_event = [button |-> "predict", vin |-> Vin1OtherPrefix]
    /\ Len(data) = 2 /\ data[1].VIN = Vin1 /\ data[2].VIN = Vin1OtherPrefix
    /\ similar_vehicles = <<data[2]>>
    /\ data[2].price = 20000
    /\ estimated_price = <<40000>>

\* C17: whenever comparables are stored and a prediction is requested, the
\* deduction rules are applied and a final price is shown, also when the
\* statistical estimate of the comparables is 0.
C17_PredictionShowsFinalPrice ==
    ui_event.button = "predict" =>
        /\ fetches = 1
        /\ shown = "final_price"
        /\ final_price = <<FinalPrice(estimated_price[1], total_deduction_rate)>>

\* the only comparable was sold for 0: the estimate is 0.0 and nothing is shown
C17_Witness ==
    /\ ui_event.button = "predict"
    /\ df_similar = <<0>>
    /\ estimated_price = <<0>>
    /\ shown = "nothing" /\ final_price = <<>>

====
